---- MODULE Spec2Model ----
(***************************************************************************)
(* Model of TTS/utils/training.py: the training-loop helpers               *)
(*   check_update, lr_decay, set_weight_decay,                             *)
(*   StepwiseGradualLR.get_lr and gradual_training_scheduler.              *)
(*                                                                         *)
(* Every helper is a synchronous call.  A behaviour is one call: the       *)
(* initial state holds the function called and its arguments (drawn from   *)
(* bounded sets), the call's action computes the outcome as the code does  *)
(* and stores it in ret.                                                   *)
(***************************************************************************)
EXTENDS Integers, Sequences, FiniteSets, TLC

VARIABLES
    fn,     \* the helper being called
    pc,     \* "call" before the body has run, "done" after
    args,   \* the arguments (and the environment the call reads)
    grads,  \* the .grad of each parameter of the model, mutated in place
    ret     \* the outcome: a returned value or a raised exception

vars == <<fn, pc, args, grads, ret>>

(***************************************************************************)
(* Outcomes of a call.                                                     *)
(***************************************************************************)
Pending == [kind |-> "pending", value |-> <<>>, exc |-> "none"]

Return(v) == [kind |-> "return", value |-> v, exc |-> "none"]

Raise(e) == [kind |-> "raise", value |-> <<>>, exc |-> e]

\* Python's None (here: the initial selection of the schedule scan).
None == <<>>

\* All sequences over S of length at most n.
SeqsUpTo(S, n) == UNION {[1..k -> S] : k \in 0..n}

(***************************************************************************)
(* Parameter names are sequences of characters, so that Python's           *)
(* `sub in name` is decided character by character.                        *)
(***************************************************************************)
Contains(sub, name) ==
    \E k \in 0..(Len(name) - Len(sub)) :
        \A i \in 1..Len(sub) : name[k + i] = sub[i]

\* Names of model parameters.
StopnetBias == <<"s", "t", "o", "p", "n", "e", "t", ".", "b", "i", "a", "s">>

LinearWeight == <<"l", "i", "n", "e", "a", "r", ".", "w", "e", "i", "g", "h", "t">>

LstmWeight == <<"l", "s", "t", "m", ".", "w", "e", "i", "g", "h", "t">>

EmbeddingWeight == <<"e", "m", "b", "e", "d", "d", "i", "n", "g", ".", "w", "e", "i", "g", "h", "t">>

\* The parameter name set_weight_decay leaves to another optimizer.
CapacitronBeta == <<"c", "a", "p", "a", "c", "i", "t", "r", "o", "n", "_", "l", "a", "y", "e", "r", ".", "b", "e", "t", "a">>

\* The substring check_update looks for when ignore_stopnet is set.
Stopnet == <<"s", "t", "o", "p", "n", "e", "t">>

(***************************************************************************)
(* gradual_training_scheduler                                              *)
(***************************************************************************)
MaxEntries == 3

MaxThreshold == 3

MaxGlobalStep == 2

MaxDevices == 2

\* (batch_size, grad_accum) payloads of a schedule entry.
Payloads == {<<32, 1>>, <<16, 2>>, <<8, 4>>}

\* One entry of config.gradual_training: (threshold, batch_size, grad_accum).
ScheduleEntries == {<<t, p[1], p[2]>> : t \in 0..MaxThreshold, p \in Payloads}

\* Mutant: the scan keeps the first qualifying entry instead of the last.
RECURSIVE ScanGradualTrainingFirst(_, _, _, _)
ScanGradualTrainingFirst(gradual_training, i, scaled_step, new_values) ==
    IF i > Len(gradual_training)
    THEN new_values
    ELSE ScanGradualTrainingFirst(
             gradual_training, i + 1, scaled_step,
             IF scaled_step >= gradual_training[i][1] /\ new_values = None
             THEN gradual_training[i]
             ELSE new_values)

\* The for loop of lines 144-146: the last entry, in list order, whose
\* threshold is reached by the scaled step replaces the selection.
RECURSIVE ScanGradualTraining(_, _, _, _)
ScanGradualTraining(gradual_training, i, scaled_step, new_values) ==
    IF i > Len(gradual_training)
    THEN new_values
    ELSE ScanGradualTraining(
             gradual_training, i + 1, scaled_step,
             IF scaled_step >= gradual_training[i][1]
             THEN gradual_training[i]
             ELSE new_values)

\* Lines 136-147.  Subscripting None at line 147 raises TypeError.
gradual_training_scheduler(global_step, device_count, gradual_training) ==
    LET num_gpus == IF device_count = 0 THEN 1 ELSE device_count
        new_values == ScanGradualTraining(
                          gradual_training, 1, global_step * num_gpus, None)
    IN  IF new_values = None
        THEN Raise("TypeError")
        ELSE Return(<<new_values[2], new_values[3]>>)

InitGradual ==
    /\ fn = "gradual_training_scheduler"
    /\ pc = "call"
    /\ args \in [global_step : 0..MaxGlobalStep,
                 device_count : 0..MaxDevices,
                 gradual_training : SeqsUpTo(ScheduleEntries, MaxEntries)]
    /\ grads = <<>>
    /\ ret = Pending

CallGradual ==
    /\ fn = "gradual_training_scheduler"
    /\ pc = "call"
    /\ ret' = gradual_training_scheduler(
                  args.global_step, args.device_count, args.gradual_training)
    /\ pc' = "done"
    /\ UNCHANGED <<fn, args, grads>>

SpecGradual == InitGradual /\ [][CallGradual]_vars

\* Thresholds of a list of tuples are strictly increasing.
StrictlyIncreasing(entries) ==
    \A i \in 1..(Len(entries) - 1) : entries[i][1] < entries[i + 1][1]

GradualDone == fn = "gradual_training_scheduler" /\ pc = "done"

ScaledStep ==
    args.global_step * (IF args.device_count > 1 THEN args.device_count ELSE 1)

Qualifying == {i \in 1..Len(args.gradual_training) :
                   args.gradual_training[i][1] <= ScaledStep}

\* C1: for strictly increasing thresholds and a step some threshold
\* qualifies for, the result is (batch_size, grad_accum) of the entry with
\* the greatest threshold <= global_step * max(device_count, 1).
C1_GreatestQualifyingEntry ==
    (GradualDone /\ StrictlyIncreasing(args.gradual_training)
                 /\ Qualifying # {})
    => \E i \in Qualifying :
          /\ \A j \in Qualifying :
                 args.gradual_training[j][1] <= args.gradual_training[i][1]
          /\ ret = Return(<<args.gradual_training[i][2],
                            args.gradual_training[i][3]>>)

\* Witness of C1: three increasing entries, the middle one selected, on two
\* devices (the scaled step, not the raw step, reaches its threshold).
C1_Witness ==
    /\ GradualDone
    /\ Len(args.gradual_training) = 3
    /\ StrictlyIncreasing(args.gradual_training)
    /\ args.device_count = 2
    /\ Qualifying = {1, 2}
    /\ args.global_step < args.gradual_training[2][1]
    /\ args.gradual_training[1][2] # args.gradual_training[2][2]
    /\ ret = Return(<<args.gradual_training[2][2], args.gradual_training[2][3]>>)

\* C7 as claimed: with no qualifying entry the call fails with an explicit
\* "no schedule found for step" error, not by subscripting None.
C7_ExplicitNoScheduleError ==
    (GradualDone /\ Qualifying = {})
    => (ret.kind = "raise" /\ ret.exc = "NoScheduleFoundError")

(***************************************************************************)
(* StepwiseGradualLR.get_lr                                                *)
(***************************************************************************)
MaxPairs == 3

MaxLrThreshold == 3

MaxEpoch == 4

MaxGroups == 2

\* Learning rates, in units of 0.001.
Rates == {1, 10, 100}

\* One entry of config.gradual_learning_rates: (threshold, rate).
RatePairs == {<<t, r>> : t \in 0..MaxLrThreshold, r \in Rates}

Max2(a, b) == IF a >= b THEN a ELSE b

\* Python list subscript with a 0-based, possibly negative, in-range index.
PyAt(list, i) == IF i < 0 THEN list[Len(list) + i + 1] ELSE list[i + 1]

\* np.tile(lr, n): n copies of lr.
Tile(lr, n) == [g \in 1..n |-> lr]

\* Lines 114-118: the two columns of the config.
Column(pairs, c) == [i \in 1..Len(pairs) |-> pairs[i][c]]

\* Lines 120-122: np.where(np.less(step_thresholds, step) == False)[0],
\* the 0-based indices whose threshold is not strictly below step.
FalseIndices(step_thresholds, step) ==
    {i \in 0..(Len(step_thresholds) - 1) : ~(step_thresholds[i + 1] < step)}

SetMin(S) == CHOOSE x \in S : \A y \in S : x <= y

\* Lines 112-134.
\*  - line 123: indexing the empty index array raises IndexError, which is
\*    swallowed; first_false stays the empty array, and np.max of the empty
\*    array at line 127 raises ValueError;
\*  - line 127: np.max(scalar, 0) is the scalar, so the subscript is
\*    first_false - 1, and -1 wraps to the last rate;
\*  - line 132: step_thresholds[1] raises IndexError on a one-entry list.
get_lr(last_epoch, gradual_learning_rates, num_groups) ==
    LET step == Max2(last_epoch, 1)
        step_thresholds == Column(gradual_learning_rates, 1)
        rates == Column(gradual_learning_rates, 2)
        falses == FalseIndices(step_thresholds, step)
    IN  IF falses = {}
        THEN Raise("ValueError")
        ELSE LET first_false == SetMin(falses)
                 lr127 == PyAt(rates, first_false - 1)
                 lr130 == IF step > PyAt(step_thresholds, -1)
                          THEN PyAt(rates, -1)
                          ELSE lr127
             IN  IF Len(step_thresholds) < 2
                 THEN Raise("IndexError")
                 ELSE LET lr132 == IF step < PyAt(step_thresholds, 1)
                                   THEN PyAt(rates, 0)
                                   ELSE lr130
                      IN  Return(Tile(lr132, num_groups))

InitGetLr ==
    /\ fn = "get_lr"
    /\ pc = "call"
    /\ args \in [last_epoch : -1..MaxEpoch,
                 gradual_learning_rates : SeqsUpTo(RatePairs, MaxPairs),
                 num_groups : 1..MaxGroups]
    /\ grads = <<>>
    /\ ret = Pending

CallGetLr ==
    /\ fn = "get_lr"
    /\ pc = "call"
    /\ ret' = get_lr(args.last_epoch, args.gradual_learning_rates,
                     args.num_groups)
    /\ pc' = "done"
    /\ UNCHANGED <<fn, args, grads>>

SpecGetLr == InitGetLr /\ [][CallGetLr]_vars

GetLrDone == fn = "get_lr" /\ pc = "done"

LrStep == Max2(args.last_epoch, 1)

LrLen == Len(args.gradual_learning_rates)

\* 0-based indices whose threshold is strictly greater than the step.
Exceeding == {j \in 0..(LrLen - 1) :
                 args.gradual_learning_rates[j + 1][1] > LrStep}

\* C2 as claimed: with at least two strictly increasing thresholds and some
\* threshold strictly above step, every group gets rate_{j-1}, j the first
\* index with threshold_j > step (rate_0 below the second threshold); so a
\* step equal to threshold_i yields rate_i.
C2_RateBeforeFirstExceeding ==
    (GetLrDone /\ LrLen >= 2
               /\ StrictlyIncreasing(args.gradual_learning_rates)
               /\ Exceeding # {})
    => LET j == SetMin(Exceeding)
           expected == IF LrStep < args.gradual_learning_rates[2][1]
                       THEN args.gradual_learning_rates[1][2]
                       ELSE args.gradual_learning_rates[j][2]
       IN  ret = Return(Tile(expected, args.num_groups))

\* C3 as claimed: with at least two strictly increasing thresholds and no
\* threshold above step, get_lr returns the last rate for every group.
C3_LastRateAtOrPastLastThreshold ==
    (GetLrDone /\ LrLen >= 2
               /\ StrictlyIncreasing(args.gradual_learning_rates)
               /\ Exceeding = {})
    => ret = Return(Tile(args.gradual_learning_rates[LrLen][2],
                         args.num_groups))

\* C8 as claimed: a config with fewer than two pairs fails with an explicit
\* configuration error, never with an incidental fault or a rate.
C8_ExplicitConfigError ==
    (GetLrDone /\ LrLen < 2)
    => (ret.kind = "raise" /\ ret.exc = "ConfigurationError")

(***************************************************************************)
(* check_update                                                            *)
(***************************************************************************)
MaxModelParams == 2

\* Names of the parameters of the models check_update is called on.
CheckedNames == {StopnetBias, LinearWeight, LstmWeight}

\* Clip thresholds.
GradClips == {1, 5}

\* A gradient: a finite value v, possibly scaled by a clip coefficient
\* max_norm / (sqrt(sq) + 1e-6) recorded as coef = <<max_norm, sq>>, or a
\* non-finite value.
Fin(v) == [k |-> "fin", v |-> v, coef |-> <<>>]

InfGrad == [k |-> "inf", v |-> 0, coef |-> <<>>]

NanGrad == [k |-> "nan", v |-> 0, coef |-> <<>>]

GradVals == {Fin(0), Fin(3), Fin(4), InfGrad, NanGrad}

\* The torch builds the isinstance test of line 32 distinguishes: the clip
\* primitive returns a Python float, or a tensor; the tensor builds either
\* scale only when the coefficient is below 1 or multiply by the clamped
\* coefficient.
TorchBuilds == {"float", "tensor", "tensor_clamp"}

\* Injective sequences over S of length at most n (parameter names of a
\* model are unique).
DistinctSeqsUpTo(S, n) ==
    {q \in SeqsUpTo(S, n) : \A i, j \in 1..Len(q) : q[i] = q[j] => i = j}

RECURSIVE SumSquares(_, _)
SumSquares(g, S) ==
    IF S = {}
    THEN 0
    ELSE LET i == CHOOSE x \in S : TRUE
         IN  g[i].v * g[i].v + SumSquares(g, S \ {i})

\* The 2-norm of the gradients of the selected parameters: NaN if any is
\* NaN, else infinite if any is infinite, else sqrt(sq).
TotalNorm(g, selected) ==
    IF \E i \in selected : g[i].k = "nan"
    THEN [k |-> "nan", sq |-> 0]
    ELSE IF \E i \in selected : g[i].k = "inf"
         THEN [k |-> "inf", sq |-> 0]
         ELSE [k |-> "fin", sq |-> SumSquares(g, selected)]

\* A gradient multiplied by the coefficient of a finite norm sqrt(sq) that
\* reaches max_norm.
Scaled(grad, max_norm, sq) ==
    IF grad.v = 0 THEN grad ELSE [grad EXCEPT !.coef = <<max_norm, sq>>]

\* A gradient multiplied by the coefficient 0 of an infinite norm.
TimesZero(grad) == IF grad.k = "fin" THEN Fin(0) ELSE NanGrad

\* What the clip primitive does to one selected gradient.
\*  - finite norm: coefficient max_norm / (norm + 1e-6) is below 1 exactly
\*    when max_norm^2 <= sq (integers), and then the gradient is scaled;
\*  - infinite norm: the coefficient is 0;
\*  - NaN norm: NaN < 1 is false, so nothing is scaled, except in builds
\*    that multiply by the clamped (NaN) coefficient.
ClippedGrad(grad, norm, max_norm, torch) ==
    IF norm.k = "fin"
    THEN IF max_norm * max_norm <= norm.sq
         THEN Scaled(grad, max_norm, norm.sq)
         ELSE grad
    ELSE IF norm.k = "inf"
         THEN TimesZero(grad)
         ELSE IF torch = "tensor_clamp" THEN NanGrad ELSE grad

\* torch.nn.utils.clip_grad_norm_(parameters, max_norm): the norm over the
\* given parameters, and their gradients rescaled in place.
clip_grad_norm_(g, selected, max_norm, torch) ==
    LET norm == TotalNorm(g, selected)
    IN  [norm |-> [k |-> norm.k, sq |-> norm.sq,
                   type |-> IF torch = "float" THEN "float" ELSE "tensor"],
         grads |-> [i \in 1..Len(g) |->
                        IF i \in selected
                        THEN ClippedGrad(g[i], norm, max_norm, torch)
                        ELSE g[i]]]

\* `not amp_opt_params` (lines 20 and 26): None and the empty list are falsy.
Falsy(amp_opt_params) == amp_opt_params.none \/ amp_opt_params.params = {}

\* Mutant: ignore_stopnet takes precedence over an explicit parameter list.
SelectedParamsStopnetFirst(named_parameters, ignore_stopnet, amp_opt_params) ==
    IF ignore_stopnet
    THEN {i \in 1..Len(named_parameters) :
              ~Contains(Stopnet, named_parameters[i])}
    ELSE IF Falsy(amp_opt_params)
         THEN 1..Len(named_parameters)
         ELSE amp_opt_params.params

\* Lines 19-29: the parameters handed to the clip primitive, as indices into
\* the model's parameter listing.
SelectedParams(named_parameters, ignore_stopnet, amp_opt_params) ==
    IF ignore_stopnet
    THEN IF Falsy(amp_opt_params)
         THEN {i \in 1..Len(named_parameters) :
                   ~Contains(Stopnet, named_parameters[i])}
         ELSE amp_opt_params.params
    ELSE IF Falsy(amp_opt_params)
         THEN 1..Len(named_parameters)
         ELSE amp_opt_params.params

\* np.isinf on a Python float (line 33).
NpIsInf(grad_norm) == grad_norm.k = "inf"

\* torch.isinf on a tensor (line 37).
TorchIsInf(grad_norm) == grad_norm.k = "inf"

\* Lines 16-40: the returned (grad_norm, skip_flag) and the gradients after
\* the call.
check_update(named_parameters, g, grad_clip, ignore_stopnet, amp_opt_params, torch) ==
    LET selected == SelectedParams(named_parameters, ignore_stopnet,
                                   amp_opt_params)
        clipped == clip_grad_norm_(g, selected, grad_clip, torch)
        grad_norm == clipped.norm
        skip_flag == IF grad_norm.type = "float"
                     THEN NpIsInf(grad_norm)
                     ELSE TorchIsInf(grad_norm)
    IN  [ret |-> Return(<<grad_norm, skip_flag>>), grads |-> clipped.grads]

InitCheckUpdate ==
    /\ fn = "check_update"
    /\ pc = "call"
    /\ \E names \in DistinctSeqsUpTo(CheckedNames, MaxModelParams) :
       \E g \in [1..Len(names) -> GradVals] :
       \E amp \in {[none |-> TRUE, params |-> {}]}
                  \cup {[none |-> FALSE, params |-> S] :
                            S \in SUBSET (1..Len(names))} :
       \E clip \in GradClips, ignore \in BOOLEAN, torch \in TorchBuilds :
           /\ args = [named_parameters |-> names,
                      grad |-> g,
                      grad_clip |-> clip,
                      ignore_stopnet |-> ignore,
                      amp_opt_params |-> amp,
                      torch |-> torch]
           /\ grads = g
    /\ ret = Pending

CallCheckUpdate ==
    /\ fn = "check_update"
    /\ pc = "call"
    /\ LET out == check_update(args.named_parameters, grads, args.grad_clip,
                               args.ignore_stopnet, args.amp_opt_params,
                               args.torch)
       IN  /\ ret' = out.ret
           /\ grads' = out.grads
    /\ pc' = "done"
    /\ UNCHANGED <<fn, args>>

SpecCheckUpdate == InitCheckUpdate /\ [][CallCheckUpdate]_vars

CheckUpdateDone == fn = "check_update" /\ pc = "done"

\* The norm of the gradients the clip primitive was given, before the call.
NormBefore ==
    TotalNorm(args.grad,
              SelectedParams(args.named_parameters, args.ignore_stopnet,
                             args.amp_opt_params))

\* C4 as claimed: check_update returns, and its skip flag is TRUE exactly
\* when the norm returned by the clip primitive is NaN or infinite, on the
\* float path and on the tensor path.
C4_SkipIffNonFinite ==
    CheckUpdateDone
    => /\ ret.kind = "return"
       /\ ret.value[2] = (ret.value[1].k \in {"inf", "nan"})

\* The set of parameters C10 says the call covers.
C10_Covered ==
    IF ~args.amp_opt_params.none /\ args.amp_opt_params.params # {}
    THEN args.amp_opt_params.params
    ELSE IF args.ignore_stopnet
         THEN {i \in 1..Len(args.named_parameters) :
                   ~Contains(Stopnet, args.named_parameters[i])}
         ELSE 1..Len(args.named_parameters)

\* C10: the norm and the clipping cover exactly the explicit list when a
\* non-empty one is passed (whatever ignore_stopnet is), else the parameters
\* whose name lacks 'stopnet' when ignore_stopnet is set, else all; the
\* gradients of all other parameters are unchanged.
C10_SelectionAndFrame ==
    CheckUpdateDone
    => LET norm == TotalNorm(args.grad, C10_Covered)
       IN  /\ ret.kind = "return"
           /\ ret.value[1].k = norm.k
           /\ ret.value[1].sq = norm.sq
           /\ \A i \in 1..Len(args.named_parameters) :
                  IF i \in C10_Covered
                  THEN grads[i] = ClippedGrad(args.grad[i], norm,
                                              args.grad_clip, args.torch)
                  ELSE grads[i] = args.grad[i]

\* Witness of C10: ignore_stopnet is set and an explicit list naming only a
\* stopnet parameter is passed; that parameter is clipped, the other, whose
\* name lacks 'stopnet', keeps its gradient.
C10_Witness ==
    /\ CheckUpdateDone
    /\ args.ignore_stopnet
    /\ Len(args.named_parameters) = 2
    /\ \E i, j \in 1..2 :
          /\ args.amp_opt_params.params = {i}
          /\ Contains(Stopnet, args.named_parameters[i])
          /\ ~Contains(Stopnet, args.named_parameters[j])
          /\ args.grad[i] = Fin(3)
          /\ grads[i] # args.grad[i]
          /\ args.grad[j] = Fin(4)
          /\ grads[j] = args.grad[j]

(***************************************************************************)
(* set_weight_decay                                                        *)
(***************************************************************************)
MaxNamedParams == 2

MaxRank == 2

\* Names of the parameters of the models set_weight_decay is called on.
DecayNames ==
    {StopnetBias, LinearWeight, LstmWeight, EmbeddingWeight, CapacitronBeta}

\* The default skip_list of line 66.
DefaultSkipList ==
    {<<"d", "e", "c", "o", "d", "e", "r", ".", "a", "t", "t", "e", "n", "t", "i", "o", "n", ".", "v">>,
     <<"r", "n", "n">>, <<"l", "s", "t", "m">>, <<"g", "r", "u">>,
     <<"e", "m", "b", "e", "d", "d", "i", "n", "g">>}

\* The skip lists passed: the default, none, and a caller's own.
SkipLists == {DefaultSkipList, {}, {<<"l", "i", "n", "e", "a", "r">>}}

\* weight_decay coefficients, in units of 1e-6.
WeightDecays == {0, 5}

\* One model parameter: its name, len(param.shape) and requires_grad.
NamedParams ==
    [name : DecayNames, rank : 0..MaxRank, requires_grad : BOOLEAN]

\* Mutant: the requires_grad test of line 77 is missing.
SkippedIgnoringRequiresGrad(param) == param.name = CapacitronBeta

\* Lines 75-78: the parameters the loop passes over.
Skipped(param) == param.name = CapacitronBeta \/ ~param.requires_grad

\* Mutant: rank 1 and a skip_list match are both required.
InNoDecayBoth(param, skip_list) ==
    param.rank = 1 /\ \E skip_name \in skip_list : Contains(skip_name, param.name)

\* Line 80: the test that sends a parameter to no_decay.
InNoDecay(param, skip_list) ==
    param.rank = 1 \/ \E skip_name \in skip_list : Contains(skip_name, param.name)

\* The loop of lines 73-83 from position i on; parameters are identified by
\* their position in the model's listing.
RECURSIVE PartitionLoop(_, _, _, _, _)
PartitionLoop(named_parameters, i, skip_list, no_decay, decay) ==
    IF i > Len(named_parameters)
    THEN [no_decay |-> no_decay, decay |-> decay]
    ELSE IF Skipped(named_parameters[i])
         THEN PartitionLoop(named_parameters, i + 1, skip_list, no_decay, decay)
         ELSE IF InNoDecay(named_parameters[i], skip_list)
              THEN PartitionLoop(named_parameters, i + 1, skip_list,
                                 Append(no_decay, i), decay)
              ELSE PartitionLoop(named_parameters, i + 1, skip_list,
                                 no_decay, Append(decay, i))

\* Lines 66-90.
set_weight_decay(named_parameters, weight_decay, skip_list) ==
    LET lists == PartitionLoop(named_parameters, 1, skip_list, <<>>, <<>>)
    IN  Return(<<[params |-> lists.no_decay, weight_decay |-> 0],
                 [params |-> lists.decay, weight_decay |-> weight_decay]>>)

InitSetWeightDecay ==
    /\ fn = "set_weight_decay"
    /\ pc = "call"
    /\ \E listing \in SeqsUpTo(NamedParams, MaxNamedParams) :
           /\ \A i, j \in 1..Len(listing) :
                  listing[i].name = listing[j].name => i = j
           /\ args \in [named_parameters : {listing},
                        weight_decay : WeightDecays,
                        skip_list : SkipLists]
    /\ grads = <<>>
    /\ ret = Pending

CallSetWeightDecay ==
    /\ fn = "set_weight_decay"
    /\ pc = "call"
    /\ ret' = set_weight_decay(args.named_parameters, args.weight_decay,
                               args.skip_list)
    /\ pc' = "done"
    /\ UNCHANGED <<fn, args, grads>>

SpecSetWeightDecay == InitSetWeightDecay /\ [][CallSetWeightDecay]_vars

SetWeightDecayDone == fn = "set_weight_decay" /\ pc = "done"

\* Number of occurrences of parameter i in the two returned groups.
Occurrences(i) ==
    Cardinality({k \in 1..Len(ret.value[1].params) :
                     ret.value[1].params[k] = i})
    + Cardinality({k \in 1..Len(ret.value[2].params) :
                       ret.value[2].params[k] = i})

\* C5 as claimed: every trainable parameter of the listing is in exactly one
\* of the two groups, and no parameter with requires_grad false is in either.
C5_EveryTrainableInOneGroup ==
    SetWeightDecayDone
    => \A i \in 1..Len(args.named_parameters) :
           Occurrences(i) =
               IF args.named_parameters[i].requires_grad THEN 1 ELSE 0

\* C5 amended: every trainable parameter not named 'capacitron_layer.beta'
\* is in exactly one of the two groups, and no parameter with requires_grad
\* false is in either.
C5_EveryTrainableButBetaInOneGroup ==
    SetWeightDecayDone
    => \A i \in 1..Len(args.named_parameters) :
           /\ (args.named_parameters[i].requires_grad
               /\ args.named_parameters[i].name # CapacitronBeta)
              => Occurrences(i) = 1
           /\ ~args.named_parameters[i].requires_grad => Occurrences(i) = 0

\* Witness of C5: a model with a trainable and a frozen parameter, neither
\* the reserved one; the trainable one is placed, the frozen one is not.
C5_Witness ==
    /\ SetWeightDecayDone
    /\ Len(args.named_parameters) = 2
    /\ args.named_parameters[1].requires_grad
    /\ ~args.named_parameters[2].requires_grad
    /\ args.named_parameters[1].name # CapacitronBeta
    /\ args.named_parameters[2].name # CapacitronBeta
    /\ Occurrences(1) = 1
    /\ Occurrences(2) = 0

IsIncreasing(q) == \A k \in 1..(Len(q) - 1) : q[k] < q[k + 1]

InGroup(g, i) == \E k \in 1..Len(ret.value[g].params) : ret.value[g].params[k] = i

\* C6: a placed parameter is in the no-decay group (weight_decay 0) exactly
\* when its rank is 1 or its name contains a substring of skip_list, else in
\* the decay group, which carries the coefficient passed in; each group
\* keeps the order of the model's listing.
C6_GroupByRankOrName ==
    SetWeightDecayDone
    => /\ ret.kind = "return"
       /\ ret.value[1].weight_decay = 0
       /\ ret.value[2].weight_decay = args.weight_decay
       /\ IsIncreasing(ret.value[1].params)
       /\ IsIncreasing(ret.value[2].params)
       /\ \A i \in 1..Len(args.named_parameters) :
              LET p == args.named_parameters[i]
                  exempt == \/ p.rank = 1
                            \/ \E sub \in args.skip_list : Contains(sub, p.name)
              IN  /\ InGroup(1, i) => exempt
                  /\ InGroup(2, i) => ~exempt

\* Witness of C6: a rank-1 parameter whose name matches nothing and a rank-2
\* parameter whose name matches the skip list are both exempt, in listing
\* order; with another skip list a rank-2 parameter decays.
C6_Witness ==
    /\ SetWeightDecayDone
    /\ Len(args.named_parameters) = 2
    /\ args.skip_list = DefaultSkipList
    /\ args.named_parameters[1] =
           [name |-> LinearWeight, rank |-> 1, requires_grad |-> TRUE]
    /\ args.named_parameters[2] =
           [name |-> LstmWeight, rank |-> 2, requires_grad |-> TRUE]
    /\ ret.value[1].params = <<1, 2>>
    /\ ret.value[2].params = <<>>

(***************************************************************************)
(* lr_decay                                                                *)
(*                                                                         *)
(* The floats of the formula are positive numbers of the form sqrt(p / q)  *)
(* with integers p >= 0 and q > 0, written [p |-> p, q |-> q]: products,   *)
(* the powers 0.5, -0.5 and -1.5, and comparisons are then exact.          *)
(***************************************************************************)
MaxWarmup == 6

MaxLrGlobalStep == 11

\* init_lr values n / d, as <<n, d>>.
InitLrs == {<<1, 2>>, <<1, 1>>, <<3, 2>>}

\* The rational n / d.
Ratio(n, d) == [p |-> n * n, q |-> d * d]

\* x ** 0.5 for an integer x.
PowHalf(x) == [p |-> x, q |-> 1]

\* x ** -0.5 for an integer x.
PowMinusHalf(x) == [p |-> 1, q |-> x]

\* x ** -1.5 for an integer x.
PowMinusThreeHalves(x) == [p |-> 1, q |-> x * x * x]

Times(a, b) == [p |-> a.p * b.p, q |-> a.q * b.q]

Less(a, b) == a.p * b.q < b.p * a.q

Equal(a, b) == a.p * b.q = b.p * a.q

\* Mutant: the maximum of the two branches.
Maximum(a, b) == IF Less(a, b) THEN b ELSE a

\* np.minimum of two scalars.
Minimum(a, b) == IF Less(b, a) THEN b ELSE a

\* Lines 43-49.
lr_decay(init_lr, global_step, warmup_steps) ==
    LET step == global_step + 1
    IN  Times(Times(init_lr, PowHalf(warmup_steps)),
              Minimum(Times(Ratio(step, 1), PowMinusThreeHalves(warmup_steps)),
                      PowMinusHalf(step)))

InitLrDecay ==
    /\ fn = "lr_decay"
    /\ pc = "call"
    /\ args \in [init_lr : InitLrs,
                 global_step : 0..MaxLrGlobalStep,
                 warmup_steps : 1..MaxWarmup]
    /\ grads = <<>>
    /\ ret = Pending

CallLrDecay ==
    /\ fn = "lr_decay"
    /\ pc = "call"
    /\ ret' = Return(lr_decay(Ratio(args.init_lr[1], args.init_lr[2]),
                              args.global_step, args.warmup_steps))
    /\ pc' = "done"
    /\ UNCHANGED <<fn, args, grads>>

SpecLrDecay == InitLrDecay /\ [][CallLrDecay]_vars

LrDecayDone == fn = "lr_decay" /\ pc = "done"

\* The rate one training step later, same init_lr and warmup_steps.
RateAtNextStep ==
    lr_decay(Ratio(args.init_lr[1], args.init_lr[2]), args.global_step + 1,
             args.warmup_steps)

Init ==
    \/ InitGradual
    \/ InitGetLr
    \/ InitCheckUpdate
    \/ InitSetWeightDecay
    \/ InitLrDecay

Next ==
    \/ CallGradual
    \/ CallGetLr
    \/ CallCheckUpdate
    \/ CallSetWeightDecay
    \/ CallLrDecay

Spec == Init /\ [][Next]_vars

====
